---- MODULE Spec2Model ----
(***************************************************************************)
(* The Quiz component (assessment session) of the compliance portal.       *)
(*                                                                         *)
(* The component is a React function component: every render creates new   *)
(* handlers that close over the state values of that render.  A click runs *)
(* the handler of the latest render.  A setTimeout callback runs the       *)
(* handler of the render in which the timeout was scheduled, so it reads   *)
(* the currentIndex and attemptsHistory of that render, while its          *)
(* functional updates (prev => ...) act on the state at firing time.       *)
(* No timeout is ever cleared.  All timeouts have the same delay (1000     *)
(* ms), so they fire in the order in which they were scheduled.            *)
(*                                                                         *)
(* The date of a TestResult (new Date().toISOString()) is an environment   *)
(* value that no modelled operation reads; the result record omits it.     *)
(***************************************************************************)
EXTENDS Naturals, Integers, Sequences, FiniteSets, TLC

\* ---- program constants ----
SliceLen == 20
PointsPerQuestion == 5
PassMark == 80
NoOption == -1

ValidityDays == 365
NaN == -1
NoDate == -2

\* ---- bounds of the model ----
MaxBank == 3
NumOptions == 2
MaxTimers == 2
MaxRetried == 4
MaxUsers == 2
MaxCalls == 2
MaxResults == 2
TicksPerDay == 2

VARIABLES
    questions,          \* ids of the documents of the questions collection
    shuffledQuestions,  \* useState<Question[]>([]): the session's questions (ids)
    currentIndex,       \* useState(0), zero-based
    currentAttempts,    \* useState(0)
    showExplanation,    \* useState(false)
    selectedOption,     \* useState<number | null>(null)
    attemptsHistory,    \* useState<QuestionAttempt[]>([])
    testFinished,       \* useState(false)
    isLoading,          \* useState(true)
    timers,             \* pending setTimeout callbacks, oldest first
    completed,          \* the TestResults handed to onComplete, in call order
    cancelled,          \* onCancel has been called
    answers,            \* history variable: correctness of the answers accepted
                        \* for the question shown, since it was presented
    clickResult         \* history variable: what the latest call of
                        \* handleOptionClick did: "none", "processed", "returned"

quizVars == <<questions, shuffledQuestions, currentIndex, currentAttempts,
              showExplanation, selectedOption, attemptsHistory, testFinished,
              isLoading, timers, completed, cancelled, answers, clickResult>>

\* the AdminDashboard component and the users collection it reads
VARIABLES
    store,              \* documents of the users collection, in query order
    users,              \* useState<User[]>([])
    stats,              \* the memoised value of useMemo(..., [users])
    statsNow,           \* const now of the memoised computation (start of day)
    now,                \* the clock: what new Date() returns
    filter,             \* useState<'all' | 'passed' | 'outstanding'>('all')
    dashLoading,        \* useState(true): isLoading of the dashboard
    reminded            \* arguments of the calls of sendBulkReminderEmail

dashVars == <<store, users, stats, statsNow, now, filter, dashLoading, reminded>>

\* what the handlers of the dashboard hand to other modules
VARIABLES
    deletionEmails,     \* ids of the users passed to sendAccountDeletedEmail
    deletedUsers,       \* ids passed to authService.deleteUser
    certificate         \* arguments of the latest generateCertificate call

adminVars == <<deletionEmails, deletedUsers, certificate>>

\* one document of the users collection, as addTestResult reads and writes it
VARIABLES
    userDoc,            \* fields results, completedTests, bestScore
    calls               \* the calls of addTestResult, by call number

storeVars == <<userDoc, calls>>

vars == <<quizVars, dashVars, adminVars, storeVars>>

\* ---- helpers ----
Min(a, b) == IF a <= b THEN a ELSE b

Range(s) == {s[i] : i \in DOMAIN s}

Options == 0 .. (NumOptions - 1)

\* Question.correctIndex of the question with id q (data of the bank)
correctIndex(q) == q % NumOptions

Identity(S) == [i \in 1 .. Cardinality(S) |-> i]

Reversed(S) == [i \in 1 .. Cardinality(S) |-> Cardinality(S) + 1 - i]

\* [...allQuestions].sort(() => 0.5 - Math.random()): any order of the bank.
\* Every order is drawn for a bank of at most MaxBank questions; for a larger
\* bank two orders are drawn.
Shuffles(S) ==
    IF Cardinality(S) <= MaxBank
    THEN {p \in [1 .. Cardinality(S) -> S] : Range(p) = S}
    ELSE {Identity(S), Reversed(S)}

\* shuffled.slice(0, 20)
Slice(s) == SubSeq(s, 1, Min(SliceLen, Len(s)))

\* attemptsHistory.filter(a => a.isCorrect).length
CorrectCount(h) == Cardinality({i \in DOMAIN h : h[i].isCorrect})

\* const score = attemptsHistory.filter(a => a.isCorrect).length * 5
Score(h) == CorrectCount(h) * PointsPerQuestion

\* the TestResult finishQuiz builds from the attemptsHistory it closes over
TestResult(h) ==
    [score |-> Score(h), passed |-> Score(h) >= PassMark, questionDetails |-> h]

\* the values a handler closes over in the render that created it
Closure(kind) ==
    [kind |-> kind, currentIndex |-> currentIndex, attemptsHistory |-> attemptsHistory]

\* the question view is rendered: loaded, not finished, current question defined
QuizView ==
    /\ ~isLoading
    /\ Len(shuffledQuestions) > 0
    /\ ~testFinished
    /\ currentIndex < Len(shuffledQuestions)
    /\ ~cancelled

currentQuestion == shuffledQuestions[currentIndex + 1]

\* attempts of the QuestionAttempt recorded for a correct answer
\* the attempt in progress is not counted
CorrectAttemptsNotCounted == currentAttempts

CorrectAttempts == currentAttempts + 1

\* ---- dates ----
\* An instant is a number of ticks: day * TicksPerDay + time of day.  NaN is
\* the time value of an Invalid Date, NoDate stands for null.  The date of a
\* stored TestResult is a string: [ok, day, tick], where ok tells whether
\* the string parses.

\* new Date(dateString)
NewDate(dateString) ==
    IF dateString.ok
    THEN dateString.day * TicksPerDay + dateString.tick
    ELSE NaN

\* date.setHours(0, 0, 0, 0)
setHours0(t) == IF t = NaN THEN NaN ELSE (t \div TicksPerDay) * TicksPerDay

\* date.setDate(date.getDate() + n)
addDays(t, n) == IF t = NaN THEN NaN ELSE t + n * TicksPerDay

\* the day of expiry itself still counts as valid
GreaterStrict(a, b) == a # NaN /\ b # NaN /\ a > b

\* a >= b on Date objects: false when either is an Invalid Date
GreaterEq(a, b) == a # NaN /\ b # NaN /\ a >= b

\* the expiry instant is not cleared to the start of its day
ExpiryDateWithTimeOfDay(lastSuccessDate) == addDays(lastSuccessDate, ValidityDays)

\* expiryDate of lines 60-62
ExpiryDate(lastSuccessDate) == setHours0(addDays(lastSuccessDate, ValidityDays))

\* ---- compliance evaluation (the body of the stats useMemo) ----
\* every entry is taken, whatever its passed flag
PassingUnfiltered(results) == DOMAIN results

\* indexes kept by u.results.filter(r => r.passed)
Passing(results) == {i \in DOMAIN results : results[i].passed}

\* Index in u.results of latestPass, 0 for undefined.  filter keeps the order
\* of the history and sort is stable, so among the latest instants the
\* earliest entry of the history comes first.  With an unparseable date the
\* comparator returns NaN, which sort takes as 0: one or two entries keep
\* their order; the order of three or more is implementation-defined.
latestPass(u) ==
    IF ~u.hasResults \/ Passing(u.results) = {}
    THEN {0}
    ELSE LET P == Passing(u.results)
             t(i) == NewDate(u.results[i].date)
         IN  IF \A i \in P : t(i) # NaN
             THEN {i \in P : \A j \in P : t(j) < t(i) \/ (t(j) = t(i) /\ i <= j)}
             ELSE IF Cardinality(P) <= 2
                  THEN {i \in P : \A j \in P : i <= j}
                  ELSE P

\* the history is replaced by its passing entries
ResultsFilteredInPlace(results) ==
    SelectSeq(results, LAMBDA r : r.passed)

\* u.results after the evaluation: filter returns a new array and sort
\* orders that array, so the history itself is not touched
ResultsAfterStats(results) == results

\* isExpired of lines 57-64, evaluated at the clock: an Invalid Date is an
\* object, so if (lastSuccessDate) takes it as true
isExpiredAt(lastSuccessDate, clock) ==
    IF lastSuccessDate = NoDate
    THEN TRUE
    ELSE GreaterEq(setHours0(clock), ExpiryDate(lastSuccessDate))

\* isExpired compares the instants: neither now nor expiryDate is cleared to
\* the start of its day
StatAtInstant(u, i, clock) ==
    LET lastSuccessDate == IF i = 0 THEN NoDate ELSE NewDate(u.results[i].date)
    IN  [id |-> u.id,
         intendToTeach |-> u.intendToTeach,
         isAdmin |-> u.isAdmin,
         isExpired |-> IF lastSuccessDate = NoDate
                       THEN TRUE
                       ELSE GreaterEq(clock, addDays(lastSuccessDate, ValidityDays)),
         lastSuccessDate |-> lastSuccessDate,
         lastScore |-> IF i = 0 THEN 0 ELSE u.results[i].score]

\* the element of stats for user u, with latestPass at index i, at the clock
Stat(u, i, clock) ==
    LET lastSuccessDate == IF i = 0 THEN NoDate ELSE NewDate(u.results[i].date)
        lastScore == IF i = 0 THEN 0 ELSE u.results[i].score
    IN  [id |-> u.id,
         intendToTeach |-> u.intendToTeach,
         isAdmin |-> u.isAdmin,
         isExpired |-> isExpiredAt(lastSuccessDate, clock),
         lastSuccessDate |-> lastSuccessDate,
         lastScore |-> lastScore]

\* every member gets the status computed for the first member of the batch
StatsOfFirst(us, clock) ==
    {[i \in DOMAIN us |->
         [Stat(us[1], j, clock) EXCEPT !.id = us[i].id,
                                       !.intendToTeach = us[i].intendToTeach,
                                       !.isAdmin = us[i].isAdmin]] :
        j \in latestPass(us[1])}

\* the values users.map(...) can return at the clock
StatsOf(us, clock) ==
    {[i \in DOMAIN us |-> Stat(us[i], f[i], clock)] :
        f \in {g \in [DOMAIN us -> 0 .. MaxResults + 1] :
                  \A i \in DOMAIN us : g[i] \in latestPass(us[i])}}

\* the filter 'passed' is not handled and shows every member
filteredStatsWithoutPassed(f) ==
    SelectSeq(stats, LAMBDA s : IF f = "outstanding" THEN s.isExpired ELSE TRUE)

\* stats.filter of filteredStats, for the filter f
filteredStats(f) ==
    SelectSeq(stats, LAMBDA s : IF f = "outstanding" THEN s.isExpired
                                ELSE IF f = "passed" THEN ~s.isExpired
                                ELSE TRUE)

\* every member is reminded, whether or not they intend to teach
outstandingUsersAll == SelectSeq(stats, LAMBDA s : s.isExpired)

\* outstandingUsers of sendReminders
outstandingUsers == SelectSeq(stats, LAMBDA s : s.isExpired /\ s.intendToTeach)

\* the three numbers of the header
totalStaff == Len(stats)

validCertifications == Len(SelectSeq(stats, LAMBDA s : ~s.isExpired))

outstandingExpired == Len(SelectSeq(stats, LAMBDA s : s.isExpired))

\* ---- data of the users collection ----
PassDays == {0, 1}

DateStrings ==
    {[ok |-> TRUE, day |-> d, tick |-> k] : d \in PassDays, k \in 0 .. (TicksPerDay - 1)}
    \cup {[ok |-> FALSE, day |-> 0, tick |-> 0]}

Outcomes == {<<FALSE, 40>>, <<TRUE, 85>>, <<TRUE, 100>>}

Results ==
    {[date |-> d, passed |-> o[1], score |-> o[2]] : d \in DateStrings, o \in Outcomes}

Histories == UNION {[1 .. m -> Results] : m \in 0 .. MaxResults}

\* a staff member of any history, or without a results field
Members ==
    {[id |-> 1, hasResults |-> TRUE, results |-> h, intendToTeach |-> TRUE,
      isDeleted |-> FALSE, isAdmin |-> FALSE] : h \in Histories}
    \cup {[id |-> 1, hasResults |-> FALSE, results |-> << >>,
            intendToTeach |-> TRUE, isDeleted |-> FALSE, isAdmin |-> FALSE]}

\* staff members never certified, certified on day 0, certified on day 1
StaffHistories ==
    {<< >>,
     <<[date |-> [ok |-> TRUE, day |-> 0, tick |-> 0], passed |-> TRUE, score |-> 85]>>,
     <<[date |-> [ok |-> TRUE, day |-> 1, tick |-> 0], passed |-> TRUE, score |-> 100]>>}

Staff(n) ==
    {m \in [1 .. n -> [id : 1 .. n, hasResults : {TRUE}, results : StaffHistories,
                       intendToTeach : BOOLEAN, isDeleted : BOOLEAN,
                       isAdmin : {FALSE}]] :
        \A i \in 1 .. n : m[i].id = i}

\* histories of the members an administrator manages: never certified,
\* certified late on day 0, a passing entry whose date does not parse
AdminHistories ==
    {<< >>,
     <<[date |-> [ok |-> TRUE, day |-> 0, tick |-> TicksPerDay - 1],
        passed |-> TRUE, score |-> 85]>>,
     <<[date |-> [ok |-> FALSE, day |-> 0, tick |-> 0], passed |-> TRUE, score |-> 100]>>}

\* the administrator who looks at the dashboard, then the other members
AdminStaff(n) ==
    {m \in [1 .. n -> [id : 1 .. n, hasResults : {TRUE}, results : AdminHistories,
                       intendToTeach : {TRUE}, isDeleted : {FALSE},
                       isAdmin : BOOLEAN]] :
        \A i \in 1 .. n : m[i].id = i /\ m[i].isAdmin = (i = 1)}

\* the clock runs over the last day of validity of a day-0 certificate and
\* the day after
FirstNow == (ValidityDays - 1) * TicksPerDay

LastNow == (ValidityDays + 1) * TicksPerDay - 1

\* ---- state after construction ----
TypeOK ==
    /\ currentIndex \in Nat
    /\ currentAttempts \in {0, 1}
    /\ showExplanation \in BOOLEAN
    /\ testFinished \in BOOLEAN
    /\ isLoading \in BOOLEAN
    /\ cancelled \in BOOLEAN
    /\ selectedOption \in Options \cup {NoOption}

InitQuiz ==
    /\ shuffledQuestions = << >>
    /\ currentIndex = 0
    /\ currentAttempts = 0
    /\ showExplanation = FALSE
    /\ selectedOption = NoOption
    /\ attemptsHistory = << >>
    /\ testFinished = FALSE
    /\ isLoading = TRUE
    /\ timers = << >>
    /\ completed = << >>
    /\ cancelled = FALSE
    /\ answers = << >>
    /\ clickResult = "none"

\* the user document register writes, and no call of addTestResult yet
InitStore ==
    /\ userDoc = [results |-> << >>, completedTests |-> 0, bestScore |-> 0]
    /\ calls = << >>

\* the dashboard after its first render, before fetchData has returned
InitDashboard ==
    /\ users = << >>
    /\ stats = << >>
    /\ statsNow = setHours0(now)
    /\ filter = "all"
    /\ dashLoading = TRUE
    /\ reminded = << >>
    /\ deletionEmails = {}
    /\ deletedUsers = {}
    /\ certificate = << >>

Init ==
    /\ questions \in {1 .. n : n \in 0 .. MaxBank}
    /\ InitQuiz
    /\ store = << >>
    /\ now = FirstNow
    /\ InitDashboard
    /\ InitStore

\* ---- operations ----
fetchQuestions ==
    /\ isLoading
    /\ isLoading' = FALSE
    /\ \/ /\ Cardinality(questions) > 0
          /\ \E shuffled \in Shuffles(questions) :
                shuffledQuestions' = Slice(shuffled)
       \/ /\ Cardinality(questions) = 0
          /\ UNCHANGED shuffledQuestions
       \/ \* getQuestionsFromFirestore rejects: catch, finally
          UNCHANGED shuffledQuestions
    /\ UNCHANGED <<questions, currentIndex, currentAttempts, showExplanation,
                   selectedOption, attemptsHistory, testFinished, timers,
                   completed, cancelled, answers, clickResult>>
    /\ UNCHANGED <<dashVars, adminVars, storeVars>>

handleOptionClick(optionIndex) ==
    /\ QuizView
    /\ ~(showExplanation \/ testFinished)
    /\ clickResult' = "processed"
    /\ selectedOption' = optionIndex
    /\ answers' = Append(answers, optionIndex = correctIndex(currentQuestion))
    /\ IF optionIndex = correctIndex(currentQuestion)
       THEN /\ attemptsHistory' = Append(attemptsHistory,
                   [questionId |-> currentQuestion,
                    attempts |-> CorrectAttempts,
                    isCorrect |-> TRUE])
            /\ timers' = Append(timers, Closure("next"))
            /\ UNCHANGED <<currentAttempts, showExplanation>>
       ELSE IF currentAttempts = 0
            THEN /\ currentAttempts' = 1
                 /\ timers' = Append(timers, Closure("clear"))
                 /\ UNCHANGED <<attemptsHistory, showExplanation>>
            ELSE /\ attemptsHistory' = Append(attemptsHistory,
                        [questionId |-> currentQuestion,
                         attempts |-> 2,
                         isCorrect |-> FALSE])
                 /\ showExplanation' = TRUE
                 /\ UNCHANGED <<currentAttempts, timers>>
    /\ UNCHANGED <<questions, shuffledQuestions, currentIndex, testFinished,
                   isLoading, completed, cancelled>>

\* handleNextQuestion of the render that closed over c; finishQuiz inlined
handleNextQuestion(c) ==
    /\ selectedOption' = NoOption
    /\ showExplanation' = FALSE
    /\ currentAttempts' = 0
    /\ IF c.currentIndex < Len(shuffledQuestions) - 1
       THEN /\ currentIndex' = currentIndex + 1
            /\ answers' = << >>
            /\ UNCHANGED <<testFinished, completed>>
       ELSE /\ testFinished' = TRUE
            /\ completed' = Append(completed, TestResult(c.attemptsHistory))
            /\ UNCHANGED <<currentIndex, answers>>
    /\ UNCHANGED <<questions, shuffledQuestions, attemptsHistory, isLoading,
                   cancelled, clickResult>>

\* the user answers while no timer bound of the model is exceeded
OptionClick ==
    /\ Len(timers) < MaxTimers
    /\ \E optionIndex \in Options : handleOptionClick(optionIndex)
    /\ UNCHANGED <<dashVars, adminVars, storeVars>>

\* the Continue button of the explanation panel
Continue ==
    /\ QuizView
    /\ showExplanation
    /\ handleNextQuestion(Closure("next"))
    /\ UNCHANGED timers
    /\ UNCHANGED <<dashVars, adminVars, storeVars>>

\* the oldest pending timeout fires
TimerFires ==
    /\ timers # << >>
    /\ timers' = Tail(timers)
    /\ IF Head(timers).kind = "next"
       THEN handleNextQuestion(Head(timers))
       ELSE /\ selectedOption' = NoOption
            /\ UNCHANGED <<questions, shuffledQuestions, currentIndex,
                           currentAttempts, showExplanation, attemptsHistory,
                           testFinished, isLoading, completed, cancelled,
                           answers, clickResult>>
    /\ UNCHANGED <<dashVars, adminVars, storeVars>>

\* the Exit Quiz button, or Back to Dashboard on the result view
ExitQuiz ==
    /\ ~isLoading
    /\ Len(shuffledQuestions) > 0
    /\ testFinished \/ currentIndex < Len(shuffledQuestions)
    /\ ~cancelled
    /\ cancelled' = TRUE
    /\ UNCHANGED <<questions, shuffledQuestions, currentIndex, currentAttempts,
                   showExplanation, selectedOption, attemptsHistory,
                   testFinished, isLoading, timers, completed, answers,
                   clickResult>>
    /\ UNCHANGED <<dashVars, adminVars, storeVars>>

\* handleOptionClick called once the session has finished: if (... ||
\* testFinished) return.  The result view renders no option button, so only
\* a call that does not come from the question view gets here.
LateOptionClick ==
    /\ testFinished
    /\ clickResult' = "returned"
    /\ UNCHANGED <<questions, shuffledQuestions, currentIndex, currentAttempts,
                   showExplanation, selectedOption, attemptsHistory,
                   testFinished, isLoading, timers, completed, cancelled,
                   answers>>
    /\ UNCHANGED <<dashVars, adminVars, storeVars>>

Next ==
    \/ fetchQuestions
    \/ OptionClick
    \/ Continue
    \/ TimerFires
    \/ ExitQuiz
    \/ LateOptionClick

Spec == Init /\ [][Next]_vars

\* ---- sessions of full length, taken by a patient staff member ----
\* questions answered incorrectly at least once so far
Retried ==
    currentAttempts
    + Cardinality({i \in DOMAIN attemptsHistory : attemptsHistory[i].attempts = 2})

\* a bank of more questions than one session takes
InitFull ==
    /\ questions = 1 .. (SliceLen + 1)
    /\ InitQuiz
    /\ store = << >>
    /\ now = FirstNow
    /\ InitDashboard
    /\ InitStore

\* the staff member answers only when no feedback is shown, starts on a wrong
\* answer for at most MaxRetried questions, and does not leave the session
PatientClick ==
    /\ QuizView
    /\ selectedOption = NoOption
    /\ \E optionIndex \in Options :
          /\ \/ optionIndex = correctIndex(currentQuestion)
             \/ currentAttempts = 1
             \/ Retried < MaxRetried
          /\ handleOptionClick(optionIndex)
    /\ UNCHANGED <<dashVars, adminVars, storeVars>>

NextPatient ==
    \/ fetchQuestions
    \/ PatientClick
    \/ Continue
    \/ TimerFires

SpecPatient == InitFull /\ [][NextPatient]_vars

\* ---- the admin dashboard ----
\* the effect on mount: getAllUsers, setUsers of the members not deleted, the
\* render that recomputes stats because users changed, setIsLoading(false);
\* or getAllUsers rejects and users stays empty
fetchData ==
    /\ dashLoading
    /\ dashLoading' = FALSE
    /\ \/ LET loaded == SelectSeq(store, LAMBDA u : ~u.isDeleted)
          IN  /\ users' = [i \in DOMAIN loaded |->
                              [loaded[i] EXCEPT !.results = ResultsAfterStats(@)]]
              /\ stats' \in StatsOf(loaded, now)
              /\ statsNow' = setHours0(now)
       \/ UNCHANGED <<users, stats, statsNow>>
    /\ UNCHANGED <<store, now, filter, reminded>>
    /\ UNCHANGED <<quizVars, adminVars, storeVars>>

\* time passes; no state of the component changes, so nothing is rendered
\* and the memoised stats stay as they are
Tick ==
    /\ now < LastNow
    /\ now' = now + 1
    /\ UNCHANGED <<store, users, stats, statsNow, filter, dashLoading, reminded>>
    /\ UNCHANGED <<quizVars, adminVars, storeVars>>

\* the filter buttons: onClick={() => setFilter(f)}
setFilter ==
    /\ ~dashLoading
    /\ \E f \in {"all", "outstanding", "passed"} : filter' = f
    /\ UNCHANGED <<store, users, stats, statsNow, now, dashLoading, reminded>>
    /\ UNCHANGED <<quizVars, adminVars, storeVars>>

\* the Send Bulk Reminders button
sendReminders ==
    /\ ~dashLoading
    /\ IF Len(outstandingUsers) = 0
       THEN UNCHANGED reminded
       ELSE reminded' = outstandingUsers
    /\ UNCHANGED <<store, users, stats, statsNow, now, filter, dashLoading>>
    /\ UNCHANGED <<quizVars, adminVars, storeVars>>

NextDashboard ==
    \/ fetchData
    \/ Tick
    \/ setFilter
    \/ sendReminders

\* one staff member of any history
InitEval ==
    /\ questions = {}
    /\ InitQuiz
    /\ store \in {<<m>> : m \in Members}
    /\ now = FirstNow
    /\ InitDashboard
    /\ InitStore

SpecEval == InitEval /\ [][NextDashboard]_vars

\* up to MaxUsers staff members
InitStaff ==
    /\ questions = {}
    /\ InitQuiz
    /\ store \in UNION {Staff(n) : n \in 1 .. MaxUsers}
    /\ now = FirstNow
    /\ InitDashboard
    /\ InitStore

SpecDashboard == InitStaff /\ [][NextDashboard]_vars

\* ---- administration of the members ----
\* the rows of the table: filteredStats.map(s => ...)
Rows == {filteredStats(filter)[k] : k \in DOMAIN filteredStats(filter)}

\* setUsers(...) and the render that recomputes stats because users changed
SetUsers(us) ==
    /\ users' = us
    /\ stats' \in StatsOf(us, now)
    /\ statsNow' = setHours0(now)

\* the checkbox of a row: confirm, updateUserAdminStatus, then the user is
\* replaced in users; nothing changes when the administrator declines or the
\* update rejects
onToggleAdmin ==
    /\ ~dashLoading
    /\ \E user \in Rows :
          \/ SetUsers([k \in DOMAIN users |->
                          IF users[k].id = user.id
                          THEN [users[k] EXCEPT !.isAdmin = ~user.isAdmin]
                          ELSE users[k]])
          \/ UNCHANGED <<users, stats, statsNow>>
    /\ UNCHANGED <<store, now, filter, dashLoading, reminded>>
    /\ UNCHANGED <<quizVars, adminVars, storeVars>>

\* every user can be removed, administrators too
mayDeleteAnyone(user) == TRUE

\* the guard of handleDeleteUser: if (user.isAdmin) { alert(...); return; }
mayDelete(user) == ~user.isAdmin

\* the Delete User button of a row: guard, confirm, sendAccountDeletedEmail
\* (which catches its own errors), deleteUser, then the user is filtered out
\* of users; deleteUser may reject
handleDeleteUser ==
    /\ ~dashLoading
    /\ \E user \in Rows :
          IF ~mayDelete(user)
          THEN UNCHANGED <<users, stats, statsNow, deletionEmails, deletedUsers>>
          ELSE \/ UNCHANGED <<users, stats, statsNow, deletionEmails, deletedUsers>>
               \/ /\ deletionEmails' = deletionEmails \cup {user.id}
                  /\ deletedUsers' = deletedUsers \cup {user.id}
                  /\ \/ SetUsers(SelectSeq(users, LAMBDA u : u.id # user.id))
                     \/ UNCHANGED <<users, stats, statsNow>>
    /\ UNCHANGED <<store, now, filter, dashLoading, reminded, certificate>>
    /\ UNCHANGED <<quizVars, storeVars>>

NextAdmin ==
    \/ fetchData
    \/ Tick
    \/ onToggleAdmin
    \/ handleDeleteUser

InitAdmin ==
    /\ questions = {}
    /\ InitQuiz
    /\ store \in UNION {AdminStaff(n) : n \in 1 .. MaxUsers}
    /\ now = FirstNow
    /\ InitDashboard
    /\ InitStore

SpecAdmin == InitAdmin /\ [][NextAdmin]_vars

\* ---- certificates printed from the dashboard ----
\* the Print Certificate button, rendered for the rows with !s.isExpired:
\* generateCertificate(getFullName(user), user.lastScore || 100)
handleDownloadCertificate ==
    /\ ~dashLoading
    /\ \E user \in Rows :
          /\ ~user.isExpired
          /\ certificate' = <<[id |-> user.id,
                               score |-> IF user.lastScore = 0
                                         THEN 100
                                         ELSE user.lastScore]>>
    /\ UNCHANGED <<dashVars, deletionEmails, deletedUsers>>
    /\ UNCHANGED <<quizVars, storeVars>>

NextCertificates ==
    \/ fetchData
    \/ Tick
    \/ setFilter
    \/ handleDownloadCertificate

SpecCertificates == InitStaff /\ [][NextCertificates]_vars

\* ---- the result store ----
\* results a finished session can hand over: [date, score]
StoredResults == {[date |-> d, score |-> sc] : d \in {1, 2}, sc \in {40, 90}}

\* the new result replaces the stored array
arrayReplace(array, element) == <<element>>

\* arrayUnion(result): the element is added unless an equal one is stored
arrayUnion(array, element) ==
    IF \E i \in DOMAIN array : array[i] = element
    THEN array
    ELSE Append(array, element)

\* a call of addTestResult up to the answer of getDoc, which is the document
\* as it is then; getDoc may reject, which ends the call
getDoc ==
    /\ Len(calls) < MaxCalls
    /\ \E result \in StoredResults :
          \/ calls' = Append(calls, [result |-> result, userData |-> userDoc,
                                     phase |-> "updateDoc"])
          \/ calls' = Append(calls, [result |-> result, userData |-> userDoc,
                                     phase |-> "rejected"])
    /\ UNCHANGED userDoc
    /\ UNCHANGED <<quizVars, dashVars, adminVars>>

\* the updateDoc of a call: one atomic write of the fields computed from the
\* document that getDoc returned; it may reject, and then nothing is written
updateDoc ==
    /\ \E c \in DOMAIN calls :
          /\ calls[c].phase = "updateDoc"
          /\ \/ /\ userDoc' =
                       [results |-> arrayUnion(userDoc.results, calls[c].result),
                        completedTests |-> calls[c].userData.completedTests + 1,
                        bestScore |-> IF calls[c].userData.bestScore >= calls[c].result.score
                                      THEN calls[c].userData.bestScore
                                      ELSE calls[c].result.score]
                   /\ calls' = [calls EXCEPT ![c].phase = "done"]
             \/ /\ calls' = [calls EXCEPT ![c].phase = "rejected"]
                /\ UNCHANGED userDoc
    /\ UNCHANGED <<quizVars, dashVars, adminVars>>

NextStore ==
    \/ getDoc
    \/ updateDoc

InitCalls ==
    /\ questions = {}
    /\ InitQuiz
    /\ store = << >>
    /\ now = FirstNow
    /\ InitDashboard
    /\ InitStore

SpecStore == InitCalls /\ [][NextStore]_vars

\* ---- properties ----
Last(s) == s[Len(s)]

\* Math.round(100 * c / n) for n > 0
RoundPct(c, n) == (200 * c + n) \div (2 * n)

\* an option click was processed in this step
ClickStep == Len(answers') = Len(answers) + 1

\* a QuestionAttempt was recorded in this step
RecordStep == Len(attemptsHistory') = Len(attemptsHistory) + 1

\* C1: a session hands exactly one TestResult to its caller: onComplete is
\* called once when the session finishes and never a second time.
C1_ExactlyOneResult ==
    /\ Len(completed) <= 1
    /\ testFinished => Len(completed) = 1

\* C2: the questionDetails of every emitted TestResult has exactly
\* min(20, size of the question bank) entries.
C2_DetailsLength ==
    \A i \in DOMAIN completed :
        Len(completed[i].questionDetails) = Min(SliceLen, Cardinality(questions))

\* C3: every emitted TestResult has score = round(100 * correct entries /
\* entries of questionDetails) and passed = (score >= 80).
C3_ScoreIsRoundedPercentage ==
    \A i \in DOMAIN completed :
        LET r == completed[i]
            n == Len(r.questionDetails)
        IN  n > 0 =>
              /\ r.score = RoundPct(CorrectCount(r.questionDetails), n)
              /\ r.passed = (r.score >= PassMark)

\* C4: in a 20-question session in which k questions were answered correctly
\* within two attempts and the others incorrectly twice, the emitted
\* TestResult has score = 5 * k and passed = (k >= 16).
C4_FivePointsPerCorrectQuestion ==
    (testFinished /\ Len(shuffledQuestions) = SliceLen
        /\ Len(attemptsHistory) = SliceLen) =>
      \A i \in DOMAIN completed :
        /\ completed[i].score = 5 * CorrectCount(attemptsHistory)
        /\ completed[i].passed = (CorrectCount(attemptsHistory) >= 16)

\* C5: while feedback for the current attempt is shown (selectedOption is
\* set), an option click records no QuestionAttempt, changes no attempt
\* counter and schedules no timer.
C5_ClickDuringFeedbackIsNoOp ==
    [][(selectedOption # NoOption /\ ClickStep) =>
          /\ attemptsHistory' = attemptsHistory
          /\ currentAttempts' = currentAttempts
          /\ timers' = timers]_vars

C7_OneRetryAfterFirstIncorrect ==
    [][/\ (answers = << >> /\ answers' = <<FALSE>>) =>
            /\ currentIndex' = currentIndex
            /\ attemptsHistory' = attemptsHistory
            /\ ~showExplanation'
            /\ currentAttempts' = 1
       /\ (Len(answers') > 0 /\ ~answers'[1]) => Len(answers') <= 2]_vars

\* C8: a second incorrect answer records {attempts 2, isCorrect FALSE} and
\* shows the explanation; while it is shown no option click is processed, and
\* only the Continue action changes currentIndex or finishes the session.
C8_ExplainingBlocksUntilContinue ==
    [][/\ (~showExplanation /\ showExplanation') =>
            /\ RecordStep
            /\ Last(attemptsHistory').attempts = 2
            /\ ~Last(attemptsHistory').isCorrect
       /\ showExplanation => ~ClickStep
       /\ (showExplanation /\ timers' # timers) =>
            /\ currentIndex' = currentIndex
            /\ testFinished' = testFinished
            /\ showExplanation']_vars

\* C9: the recorded attempts are one per presented question, in presentation
\* order: the i-th record is for the i-th question of the session, every
\* question before the current one has its record, and no question has two.
C9_OneRecordPerQuestionInOrder ==
    /\ Len(attemptsHistory) <= Len(shuffledQuestions)
    /\ \A i \in DOMAIN attemptsHistory :
          attemptsHistory[i].questionId = shuffledQuestions[i]
    /\ currentIndex <= Len(attemptsHistory)
    /\ Len(attemptsHistory) <= currentIndex + 1

\* C10: once the session is abandoned before it finished, onComplete is not
\* called any more.
C10_NoResultAfterCancel ==
    [][(cancelled /\ ~testFinished) => completed' = completed]_vars

\* the ways of the component to tell its caller anything: the onComplete and
\* onCancel callbacks of QuizProps
CallerNotified == Len(completed) > 0 \/ cancelled

\* C11: when the question bank is empty or cannot be loaded the session does
\* not start: no question is presented, no answer is accepted, no TestResult
\* is emitted, and the caller is told about it (EmptyQuestionPool).
C11_EmptyPoolSurfaced ==
    (~isLoading /\ Len(shuffledQuestions) = 0) =>
        /\ ~QuizView
        /\ answers = << >>
        /\ attemptsHistory = << >>
        /\ completed = << >>
        /\ CallerNotified

\* C12: an answer submitted once the session has finished is rejected with
\* an error (SessionAlreadyFinished): handleOptionClick never just returns.
C12_LateAnswerRejected == clickResult # "returned"

\* ---- properties of the compliance evaluation ----
DayOf(t) == t \div TicksPerDay

IsDate(t) == t # NoDate /\ t # NaN

\* the document of the users collection a loaded user came from
Document(u) == CHOOSE d \in Range(store) : d.id = u.id

\* entries of a history with passed = true
PassedEntries(u) ==
    IF u.hasResults THEN {j \in DOMAIN u.results : u.results[j].passed} ELSE {}

\* passing entries whose date parses
DatedPasses(u) == {j \in PassedEntries(u) : u.results[j].date.ok}

\* C13: a member whose history has no entry with passed = true (empty,
\* missing, or only failed attempts) gets lastSuccessDate = null, lastScore = 0
\* and isExpired = true, whatever the day of the evaluation.
C13_NeverPassedIsExpired ==
    \A i \in DOMAIN stats :
        PassedEntries(Document(stats[i])) = {} =>
            /\ stats[i].lastSuccessDate = NoDate
            /\ stats[i].lastScore = 0
            /\ stats[i].isExpired

C13_Witness ==
    \E i \in DOMAIN stats :
        /\ Document(stats[i]).hasResults
        /\ Len(Document(stats[i]).results) = MaxResults
        /\ PassedEntries(Document(stats[i])) = {}
        /\ stats[i].isExpired
        /\ DayOf(statsNow) = ValidityDays

\* the passing entries with the latest date: among the entries whose date
\* parses when there is one, any passing entry otherwise
LatestPasses(u) ==
    IF DatedPasses(u) = {}
    THEN PassedEntries(u)
    ELSE {j \in DatedPasses(u) :
            \A k \in DatedPasses(u) :
                NewDate(u.results[k].date) <= NewDate(u.results[j].date)}

\* C14: for a history with at least one passing entry, lastSuccessDate and
\* lastScore are those of a passing entry with the maximum date, and isExpired
\* follows from that date; failed entries have no influence.
C14_LatestPassSelected ==
    \A i \in DOMAIN stats :
        LET u == Document(stats[i])
        IN  PassedEntries(u) # {} =>
                \E j \in LatestPasses(u) :
                    /\ stats[i].lastSuccessDate = NewDate(u.results[j].date)
                    /\ stats[i].lastScore = u.results[j].score
                    /\ stats[i].isExpired
                         = isExpiredAt(NewDate(u.results[j].date), statsNow)

\* C15: a certification is valid for 365 days, counted in calendar days: when
\* the latest passing date is 365 days (or more) before the day of the
\* evaluation isExpired is true, when it is 364 days (or less) before it
\* isExpired is false.
C15_ValidFor365Days ==
    \A i \in DOMAIN stats :
        IsDate(stats[i].lastSuccessDate) =>
            LET age == DayOf(statsNow) - DayOf(stats[i].lastSuccessDate)
            IN  /\ age >= ValidityDays => stats[i].isExpired
                /\ age <= ValidityDays - 1 => ~stats[i].isExpired

C15_Witness ==
    \E i \in DOMAIN stats :
        /\ IsDate(stats[i].lastSuccessDate)
        /\ stats[i].lastSuccessDate % TicksPerDay # 0
        /\ DayOf(statsNow) - DayOf(stats[i].lastSuccessDate) = ValidityDays
        /\ stats[i].isExpired

\* instants of the same calendar day as t
SameDay(t) ==
    {DayOf(t) * TicksPerDay + k : k \in 0 .. (TicksPerDay - 1)}

\* C16: isExpired depends on calendar days only: evaluating with any instant
\* of the same day as 'now' and any instant of the same day as the latest
\* passing date gives the isExpired the dashboard computed.
C16_TimeOfDayIrrelevant ==
    \A i \in DOMAIN stats :
        IsDate(stats[i].lastSuccessDate) =>
            \A t \in SameDay(stats[i].lastSuccessDate), n \in SameDay(statsNow) :
                isExpiredAt(t, n) = stats[i].isExpired

C16_Witness ==
    \E i \in DOMAIN stats :
        /\ IsDate(stats[i].lastSuccessDate)
        /\ stats[i].lastSuccessDate % TicksPerDay # 0
        /\ now % TicksPerDay # 0
        /\ statsNow = setHours0(now)
        /\ DayOf(stats[i].lastSuccessDate) = 1
        /\ ~stats[i].isExpired

\* C17: a passing entry whose date cannot be parsed is not silently counted:
\* a member shown as valid has a passing entry with a parseable date less
\* than 365 days old, and a member with a passing entry whose date parses is
\* not shown as never certified.
C17_InvalidDateNotCounted ==
    \A i \in DOMAIN stats :
        LET u == Document(stats[i])
        IN  (PassedEntries(u) # DatedPasses(u)) =>
                /\ ~stats[i].isExpired =>
                      \E j \in DatedPasses(u) :
                          ~isExpiredAt(NewDate(u.results[j].date), statsNow)
                /\ DatedPasses(u) # {} => stats[i].lastSuccessDate # NoDate

\* C18: the status shown is never stale: the isExpired of every element of
\* stats is the evaluation of the member's latest pass against the current
\* day.
C18_StatusNeverStale ==
    \A i \in DOMAIN stats :
        stats[i].isExpired = isExpiredAt(stats[i].lastSuccessDate, now)

C20_RemindersExact ==
    [][reminded' # reminded =>
          /\ {reminded'[k].id : k \in DOMAIN reminded'}
               = {d.id : d \in {e \in Range(store) :
                        /\ ~e.isDeleted
                        /\ e.intendToTeach
                        /\ \E i \in DOMAIN stats :
                              stats[i].id = e.id /\ stats[i].isExpired}}
          /\ \A k, l \in DOMAIN reminded' :
                reminded'[k].id = reminded'[l].id => k = l]_vars

C20_Witness ==
    /\ Len(reminded) = 1
    /\ Len(stats) >= 2
    /\ \E i \in DOMAIN stats : stats[i].isExpired /\ ~stats[i].intendToTeach

\* ---- further properties of the Quiz ----
\* score and passed of the result view, computed from the attemptsHistory of
\* the render that shows it
resultView ==
    [score |-> Score(attemptsHistory), passed |-> Score(attemptsHistory) >= PassMark]

\* C25: the score and the pass/fail outcome shown on the result screen equal
\* the score and passed of every TestResult emitted for the session, and one
\* has been emitted when the screen is shown.
C25_ResultViewMatchesEmitted ==
    testFinished =>
        /\ Len(completed) > 0
        /\ \A k \in DOMAIN completed :
              /\ completed[k].score = resultView.score
              /\ completed[k].passed = resultView.passed

\* C26: in a started, unfinished session that was not left, currentIndex is
\* below the number of selected questions, so the current question is defined.
C26_CurrentIndexInRange ==
    (~isLoading /\ Len(shuffledQuestions) > 0 /\ ~testFinished /\ ~cancelled) =>
        /\ 0 <= currentIndex
        /\ currentIndex < Len(shuffledQuestions)

\* ---- further properties of the dashboard ----
Ids(rows) == {rows[k].id : k \in DOMAIN rows}

\* C23: 'outstanding' shows exactly the members with isExpired = true,
\* 'passed' exactly those with isExpired = false, 'all' every member; the two
\* filtered sets are disjoint and cover the collection, and the counts of the
\* header add up to Total Staff.
C23_FiltersPartition ==
    /\ filteredStats("all") = stats
    /\ Ids(filteredStats("outstanding"))
         = {stats[i].id : i \in {j \in DOMAIN stats : stats[j].isExpired}}
    /\ Ids(filteredStats("passed"))
         = {stats[i].id : i \in {j \in DOMAIN stats : ~stats[j].isExpired}}
    /\ Ids(filteredStats("outstanding")) \cap Ids(filteredStats("passed")) = {}
    /\ Ids(filteredStats("outstanding")) \cup Ids(filteredStats("passed")) = Ids(stats)
    /\ Len(filteredStats("outstanding")) + Len(filteredStats("passed")) = Len(stats)
    /\ outstandingExpired = Len(filteredStats("outstanding"))
    /\ validCertifications = Len(filteredStats("passed"))
    /\ validCertifications + outstandingExpired = totalStaff

C23_Witness ==
    /\ filter = "passed"
    /\ Len(filteredStats(filter)) > 0
    /\ Len(filteredStats(filter)) < Len(stats)

\* ---- properties of the result store ----
MaxScore(results) ==
    IF results = << >>
    THEN 0
    ELSE CHOOSE m \in {results[i].score : i \in DOMAIN results} :
            \A i \in DOMAIN results : results[i].score <= m

\* C22: the stored history is append-only under any interleaving of
\* addTestResult calls: every stored result stays where it is, unchanged, and
\* the result of every call that completed is in the history.
C22_HistoryAppendOnly ==
    [][/\ Len(userDoc.results) <= Len(userDoc'.results)
       /\ \A i \in DOMAIN userDoc.results : userDoc'.results[i] = userDoc.results[i]
       /\ \A c \in DOMAIN calls' :
             calls'[c].phase = "done" =>
                 \E i \in DOMAIN userDoc'.results : userDoc'.results[i] = calls'[c].result]_vars

\* two calls that both read the empty document have both completed
C22_Witness ==
    /\ Len(calls) >= 2
    /\ calls[1].phase = "done"
    /\ calls[2].phase = "done"
    /\ calls[1].userData.results = << >>
    /\ calls[2].userData.results = << >>
    /\ Len(userDoc.results) = 2

\* C27: the stored completedTests equals the number of entries of the stored
\* results array.
C27_CounterMatchesHistory ==
    userDoc.completedTests = Len(userDoc.results)

\* C28: the stored bestScore is the maximum score of the stored results (0
\* when there are none).
C28_BestScoreIsMaximum ==
    userDoc.bestScore = MaxScore(userDoc.results)

\* ---- properties of the administration ----
\* isExpired, lastSuccessDate, lastScore of an element of stats
Status(s) ==
    [isExpired |-> s.isExpired, lastSuccessDate |-> s.lastSuccessDate,
     lastScore |-> s.lastScore]

C24_BatchIndependent ==
    /\ Len(stats) = Len(users)
    /\ \A i \in DOMAIN users :
          /\ stats[i].id = users[i].id
          /\ \E alone \in StatsOf(<<users[i]>>, statsNow) :
                Status(alone[1]) = Status(stats[i])

C24_Witness ==
    /\ Len(stats) >= 2
    /\ \E i, k \in DOMAIN stats :
          /\ stats[i].lastSuccessDate = NaN
          /\ IsDate(stats[k].lastSuccessDate)
          /\ stats[k].isExpired
          /\ i < k

\* C29: a certificate is generated only for a certified member: at every
\* call of generateCertificate the member has a passing entry that is less
\* than 365 days old on that day.
C29_CertificateOnlyForCertified ==
    [][certificate' # certificate =>
          \E d \in Range(store) :
              /\ d.id = certificate'[1].id
              /\ \E j \in DatedPasses(d) :
                    ~isExpiredAt(NewDate(d.results[j].date), now)]_vars

\* C30: handleDeleteUser does nothing for an administrator: while a row has
\* isAdmin = true, no deletion email is sent for it, deleteUser is not called
\* for it and it stays in the displayed list.
C30_AdminNeverDeleted ==
    [][\A i \in DOMAIN stats :
          stats[i].isAdmin =>
              /\ stats[i].id \in deletionEmails' => stats[i].id \in deletionEmails
              /\ stats[i].id \in deletedUsers' => stats[i].id \in deletedUsers
              /\ stats[i].id \in Ids(users')]_vars

\* a member was made administrator and is still listed after another member
\* has been removed
C30_Witness ==
    /\ deletedUsers # {}
    /\ Len(users) < Len(store)
    /\ \E i \in DOMAIN stats :
          /\ stats[i].isAdmin
          /\ ~Document(stats[i]).isAdmin
          /\ stats[i].id \notin deletionEmails

====
